---- MODULE Spec2Model ----
(***************************************************************************)
(* The identity-to-TLS-credential resolver of iroh/src/tls/resolver.rs:    *)
(* AlwaysResolvesCert::new builds one CertifiedKey from a SecretKey and an *)
(* Authentication mode, and the rustls ResolvesClientCert and              *)
(* ResolvesServerCert implementations answer every handshake query from    *)
(* it.                                                                     *)
(***************************************************************************)
EXTENDS Integers, Sequences, FiniteSets, TLC

\* ------------------------------------------------------------------ bounds
\* Number of well-formed secret keys.
NumKeys == 2
\* Number of calls of AlwaysResolvesCert::new a behaviour holds.
MaxResolvers == 2

\* ------------------------------------------------------- Rust value shapes
None == <<>>
Some(x) == <<x>>

\* An error value: the enum variant and the error it wraps.
Error(variant, source) == [variant |-> variant, source |-> source]
NoError == Error("none", "none")

Ok(v) == [tag |-> "Ok", val |-> <<v>>, err |-> NoError]
Err(e) == [tag |-> "Err", val |-> <<>>, err |-> e]
\* A panic (a failed `expect`) unwinds out of the call: the caller gets no
\* value of the Result type, neither Ok nor Err.
Panic(msg) == [tag |-> "Panic", val |-> <<>>, err |-> Error("panic", msg)]

\* CreateConfigError: the variant and the error it was converted from.
CertError(source) == Error("CertError", source.variant)
Rustls(source) == Error("Rustls", source.variant)

IsOk(r) == r.tag = "Ok"
Unwrap(r) == r.val[1]

\* ------------------------------------------------------------------ inputs
\* crate::tls::Authentication, the two variants `new` matches on.
Authentication == {"X509", "RawPublicKey"}

\* The ways a collaborator of `new` can reject a key.  Every collaborator is
\* a pure function of the key, so a key either has one of these defects or
\* none.
Defects == << "gen_error", "cert_key_not_ecdsa", "pkcs8_encode",
              "pem_decode", "eddsa_rejected", "no_public_key" >>

\* Secret keys: 1..NumKeys are sound, and there is one more key per defect.
SecretKey == 1 .. (NumKeys + Len(Defects))

Defect(sk) == IF sk <= NumKeys THEN "none" ELSE Defects[sk - NumKeys]

\* Randomness the certificate materializer may use when it signs.
SigningRandomness == {"r1", "r2"}

\* The public counterpart of a SecretKey: an identity token that tells which
\* secret key it belongs to and nothing else.
PublicKey(sk) == [public_of |-> sk]

\* SubjectPublicKeyInfo bytes of a public key.
SubjectPublicKeyInfoDer(pk) == [spki |-> pk]

NodeIdentifier(sk) == SubjectPublicKeyInfoDer(PublicKey(sk))

\* ----------------------------------------------------------- collaborators
\* certificate::generate: a self-signed certificate whose subject public key
\* is the node identity, and the private key that signs for it.
certificate_generate(sk, rnd) ==
    IF Defect(sk) = "gen_error"
    THEN Err(Error("GenError", "none"))
    ELSE Ok([cert |-> [der |-> [subject_public_key_info |-> NodeIdentifier(sk),
                                signature |-> rnd]],
             key |-> [alg |-> IF Defect(sk) = "cert_key_not_ecdsa"
                               THEN "other" ELSE "ecdsa",
                      secret |-> sk]])

\* rustls::crypto::ring::sign::any_ecdsa_type
any_ecdsa_type(der) ==
    IF der.alg = "ecdsa"
    THEN Ok([scheme |-> "ECDSA", secret |-> der.secret])
    ELSE Err(Error("General", "none"))

\* secret_key.secret().to_pkcs8_pem(LineEnding::default())
to_pkcs8_pem(sk) ==
    IF Defect(sk) = "pkcs8_encode"
    THEN Err(Error("pkcs8", "none"))
    ELSE Ok([label |-> "PRIVATE KEY", body |-> [alg |-> "ed25519", secret |-> sk]])

\* PrivatePkcs8KeyDer::from_pem_slice
from_pem_slice(pem) ==
    IF pem.label # "PRIVATE KEY" \/ Defect(pem.body.secret) = "pem_decode"
    THEN Err(Error("pem", "none"))
    ELSE Ok(pem.body)

\* rustls::crypto::ring::sign::any_eddsa_type
any_eddsa_type(der) ==
    IF der.alg = "ed25519" /\ Defect(der.secret) # "eddsa_rejected"
    THEN Ok([scheme |-> "ED25519", secret |-> der.secret])
    ELSE Err(Error("General", "none"))

\* SigningKey::public_key
public_key(signer) ==
    IF signer.scheme = "ED25519" /\ Defect(signer.secret) = "no_public_key"
    THEN None
    ELSE Some(SubjectPublicKeyInfoDer(PublicKey(signer.secret)))

\* CertificateDer::from(bytes)
CertificateDer(bytes) == [der |-> bytes]

\* A credential built without its chain.
CertifiedKey_empty_chain(cert, key) == [cert |-> <<>>, key |-> key]

\* rustls::sign::CertifiedKey::new(cert_chain, key)
CertifiedKey(cert, key) == [cert |-> cert, key |-> key]

\* The public key a chain entry carries: the entry itself in raw-public-key
\* mode, the certificate's subject key otherwise.
EmbeddedPublicKey(auth, entry) ==
    IF auth = "RawPublicKey" THEN entry.der ELSE entry.der.subject_public_key_info

\* ------------------------------------------------- AlwaysResolvesCert::new
\* A branch that turns the materializer's failure into a TLS error.
X509CertifiedKey_as_rustls(generated) ==
    IF ~IsOk(generated)
    THEN Err(Rustls(generated.err))
    ELSE LET key == any_ecdsa_type(Unwrap(generated).key) IN
         IF ~IsOk(key)
         THEN Err(Rustls(key.err))
         ELSE Ok(CertifiedKey(<<Unwrap(generated).cert>>, Unwrap(key)))

\* Authentication::X509 branch, from the materializer's answer on:
\* `let (cert, key) = generated?;
\*  CertifiedKey::new(vec![cert], any_ecdsa_type(&key)?)`
X509CertifiedKey(generated) ==
    IF ~IsOk(generated)
    THEN Err(CertError(generated.err))
    ELSE LET cert == Unwrap(generated).cert
             key == any_ecdsa_type(Unwrap(generated).key)
         IN  IF ~IsOk(key)
             THEN Err(Rustls(key.err))
             ELSE Ok(CertifiedKey(<<cert>>, Unwrap(key)))

\* Authentication::RawPublicKey branch.
RawPublicKeyCertifiedKey(secret_key) ==
    LET pem == to_pkcs8_pem(secret_key) IN
    IF ~IsOk(pem)
    THEN Panic("key is valid")
    ELSE LET der == from_pem_slice(Unwrap(pem)) IN
         IF ~IsOk(der)
         THEN Panic("cannot open private key file")
         ELSE LET client_private_key == any_eddsa_type(Unwrap(der)) IN
              IF ~IsOk(client_private_key)
              THEN Err(Rustls(client_private_key.err))
              ELSE LET client_public_key == public_key(Unwrap(client_private_key)) IN
                   \* .ok_or(InconsistentKeys(Unknown)).expect("cannot load public key")
                   IF client_public_key = None
                   THEN Panic("cannot load public key")
                   ELSE LET client_public_key_as_cert ==
                                CertificateDer(client_public_key[1])
                        IN  Ok(CertifiedKey(<<client_public_key_as_cert>>,
                                            Unwrap(client_private_key)))

\* What a branch of the match yields: the Result of its CertifiedKey, and how
\* often it invoked certificate::generate on the way.
Outcome(result, calls) == [result |-> result, generate_calls |-> calls]

\* A branch whose certificate key pair comes from the signing randomness
\* instead of the node's secret key.
NewX509_random_key(secret_key, rnd) ==
    Outcome(X509CertifiedKey(
                certificate_generate(IF rnd = "r1" THEN secret_key
                                     ELSE 1 + (secret_key % NumKeys), rnd)), 1)

\* `Authentication::X509 => { .. }`: one call of certificate::generate.
NewX509(secret_key, rnd) ==
    Outcome(X509CertifiedKey(certificate_generate(secret_key, rnd)), 1)

\* `Authentication::RawPublicKey => { .. }`: no call of certificate::generate.
NewRawPublicKey(secret_key) == Outcome(RawPublicKeyCertifiedKey(secret_key), 0)

\* A constructor that signs with a key of its own rather than the caller's.
new_own_key(auth, secret_key, rnd) ==
    LET key == IF auth = "X509" THEN NewX509(1, rnd) ELSE NewRawPublicKey(1)
    IN  IF IsOk(key.result)
        THEN Outcome(Ok([key |-> Unwrap(key.result), auth |-> auth]),
                     key.generate_calls)
        ELSE key

\* `let key = match auth { .. }; Ok(Self { key, auth })`
new(auth, secret_key, rnd) ==
    LET key == IF auth = "X509"
               THEN NewX509(secret_key, rnd)
               ELSE NewRawPublicKey(secret_key)
    IN  IF IsOk(key.result)
        THEN Outcome(Ok([key |-> Unwrap(key.result), auth |-> auth]),
                     key.generate_calls)
        ELSE key

\* ------------------------------------------------------ handshake queries
\* A resolver that offers its key only for a signature scheme the peer listed.
client_resolve_by_sigscheme(self, root_hint_subjects, sigschemes) ==
    IF \E n \in 1 .. Len(sigschemes) : sigschemes[n] = "ED25519"
    THEN Some(self.key)
    ELSE None

\* <AlwaysResolvesCert as ResolvesClientCert>::resolve
client_resolve(self, root_hint_subjects, sigschemes) == Some(self.key)

\* <AlwaysResolvesCert as ResolvesClientCert>::only_raw_public_keys
client_only_raw_public_keys(self) == self.auth = "RawPublicKey"

\* A resolver that counts only X.509 certificates as credentials.
has_certs_x509_only(self) == self.auth = "X509"

\* <AlwaysResolvesCert as ResolvesClientCert>::has_certs
has_certs(self) == TRUE

\* <AlwaysResolvesCert as ResolvesServerCert>::resolve
server_resolve(self, client_hello) == Some(self.key)

\* A server side left at the trait's default answer.
server_only_raw_public_keys_default(self) == FALSE

\* <AlwaysResolvesCert as ResolvesServerCert>::only_raw_public_keys
server_only_raw_public_keys(self) == self.auth = "RawPublicKey"

\* Inputs the TLS layer may hand to the queries.
RootHintSubjects == { <<>>, <<"unrelated">> }
SigSchemes == { <<>>, <<"ECDSA_NISTP256_SHA256">> }
ClientHellos == { [server_name |-> None], [server_name |-> Some("unrelated.example")] }

\* ------------------------------------------------------------------- state
VARIABLES
    slots,  \* slots[i]: the i-th call of `new`: its inputs and what came of it
    last    \* the latest handshake query and what it returned

vars == <<slots, last>>

Slots == 1 .. MaxResolvers

NoResult == [tag |-> "None", val |-> <<>>, err |-> NoError]

Uninitialized ==
    [state |-> "Uninitialized", auth |-> "none", secret_key |-> 0,
     result |-> NoResult, generate_calls |-> 0]

NoQuery ==
    [slot |-> 0, role |-> "none", op |-> "none", hints |-> <<>>,
     key |-> None, answer |-> FALSE]

Init ==
    /\ slots = [i \in Slots |-> Uninitialized]
    /\ last = NoQuery

Constructed(i) == slots[i].state = "Constructed"

\* The resolver a successful `new` returned.
Resolver(i) == Unwrap(slots[i].result)

\* The lifecycle state a call of `new` leaves behind.
StateOf(result) ==
    CASE result.tag = "Ok" -> "Constructed"
      [] result.tag = "Err" -> "Failed"
      [] OTHER -> "Panicked"

\* One call of AlwaysResolvesCert::new, start to finish.
Create(i, auth, secret_key, rnd) ==
    /\ slots[i].state = "Uninitialized"
    /\ \A j \in 1 .. (i - 1) : slots[j].state # "Uninitialized"
    /\ LET out == new(auth, secret_key, rnd) IN
       slots' = [slots EXCEPT ![i] =
                    [state |-> StateOf(out.result), auth |-> auth,
                     secret_key |-> secret_key, result |-> out.result,
                     generate_calls |-> out.generate_calls]]
    /\ UNCHANGED last

\* A resolve that builds a fresh credential for each handshake and keeps it.
ClientResolve_rebuilding(i, root_hint_subjects, sigschemes) ==
    /\ Constructed(i)
    /\ \E rnd \in SigningRandomness :
          LET out == new(slots[i].auth, slots[i].secret_key, rnd) IN
          /\ slots' = [slots EXCEPT ![i].result = out.result]
          /\ last' = [slot |-> i, role |-> "client", op |-> "resolve",
                      hints |-> <<root_hint_subjects, sigschemes>>,
                      key |-> Some(Unwrap(out.result).key),
                      answer |-> FALSE]

ClientResolve(i, root_hint_subjects, sigschemes) ==
    /\ Constructed(i)
    /\ last' = [slot |-> i, role |-> "client", op |-> "resolve",
                hints |-> <<root_hint_subjects, sigschemes>>,
                key |-> client_resolve(Resolver(i), root_hint_subjects, sigschemes),
                answer |-> FALSE]
    /\ UNCHANGED slots

ServerResolve(i, client_hello) ==
    /\ Constructed(i)
    /\ last' = [slot |-> i, role |-> "server", op |-> "resolve",
                hints |-> <<client_hello>>,
                key |-> server_resolve(Resolver(i), client_hello),
                answer |-> FALSE]
    /\ UNCHANGED slots

ClientOnlyRawPublicKeys(i) ==
    /\ Constructed(i)
    /\ last' = [slot |-> i, role |-> "client", op |-> "only_raw_public_keys",
                hints |-> <<>>, key |-> None,
                answer |-> client_only_raw_public_keys(Resolver(i))]
    /\ UNCHANGED slots

ServerOnlyRawPublicKeys(i) ==
    /\ Constructed(i)
    /\ last' = [slot |-> i, role |-> "server", op |-> "only_raw_public_keys",
                hints |-> <<>>, key |-> None,
                answer |-> server_only_raw_public_keys(Resolver(i))]
    /\ UNCHANGED slots

HasCerts(i) ==
    /\ Constructed(i)
    /\ last' = [slot |-> i, role |-> "client", op |-> "has_certs",
                hints |-> <<>>, key |-> None,
                answer |-> has_certs(Resolver(i))]
    /\ UNCHANGED slots

Next ==
    \/ \E i \in Slots, auth \in Authentication, sk \in SecretKey,
          rnd \in SigningRandomness : Create(i, auth, sk, rnd)
    \/ \E i \in Slots, h \in RootHintSubjects, s \in SigSchemes : ClientResolve(i, h, s)
    \/ \E i \in Slots, ch \in ClientHellos : ServerResolve(i, ch)
    \/ \E i \in Slots : ClientOnlyRawPublicKeys(i)
    \/ \E i \in Slots : ServerOnlyRawPublicKeys(i)
    \/ \E i \in Slots : HasCerts(i)

Spec == Init /\ [][Next]_vars

\* ================================================================== claims
IsResolve == last.op = "resolve"

\* C1: on every constructed resolver, the client-role resolve (whatever the
\* trust-anchor hints and signature schemes, empty lists included) and the
\* server-role resolve (whatever the client hello) return Some(credential),
\* the credential being the one CertifiedKey stored at construction, so both
\* roles return the same key and no query returns None.
C1_ResolveReturnsStoredCredential ==
    /\ IsResolve => last.key = Some(Resolver(last.slot).key)
    /\ \A i \in Slots : Constructed(i) =>
          \A h \in RootHintSubjects, s \in SigSchemes, ch \in ClientHellos :
             /\ client_resolve(Resolver(i), h, s) # None
             /\ client_resolve(Resolver(i), h, s) = server_resolve(Resolver(i), ch)

\* A client-role resolve with an unrelated trust-anchor hint and an empty
\* signature-scheme list has returned the stored credential.
C1_Witness ==
    /\ IsResolve
    /\ last.role = "client"
    /\ last.hints = << <<"unrelated">>, <<>> >>
    /\ last.key = Some(Resolver(last.slot).key)

\* C2: only_raw_public_keys answers true iff the resolver was constructed
\* with Authentication::RawPublicKey, on the client surface and the server
\* surface alike, at every query.
C2_OnlyRawPublicKeysIffRawMode ==
    /\ last.op = "only_raw_public_keys" =>
          (last.answer <=> slots[last.slot].auth = "RawPublicKey")
    /\ \A i \in Slots : Constructed(i) =>
          /\ client_only_raw_public_keys(Resolver(i)) <=> slots[i].auth = "RawPublicKey"
          /\ server_only_raw_public_keys(Resolver(i)) <=> slots[i].auth = "RawPublicKey"

\* The server surface has answered true for a raw-public-key resolver while
\* an X.509 resolver exists too.
C2_Witness ==
    /\ last.op = "only_raw_public_keys"
    /\ last.role = "server"
    /\ last.answer
    /\ \E i \in Slots : Constructed(i) /\ slots[i].auth = "X509"

\* C9: has_certs answers true on every constructed resolver in either mode,
\* and whenever it does the client-role resolve returns Some credential.
C9_HasCertsAlwaysTrue ==
    /\ last.op = "has_certs" => last.answer
    /\ \A i \in Slots : Constructed(i) =>
          /\ has_certs(Resolver(i))
          /\ \A h \in RootHintSubjects, s \in SigSchemes :
                has_certs(Resolver(i)) => client_resolve(Resolver(i), h, s) # None

\* has_certs has answered true on a raw-public-key resolver.
C9_Witness ==
    /\ last.op = "has_certs"
    /\ last.answer
    /\ slots[last.slot].auth = "RawPublicKey"

\* ------------------------------------------------- construction claims
Created(i) == slots[i].state # "Uninitialized"

\* C3: after every successful new(auth, secret_key), in both branches, the
\* resolver's auth field is the input mode and the credential's chain has
\* exactly one entry, whose embedded public key is the signer's public key.
C3_ModeKeptAndOneMatchingEntry ==
    \A i \in Slots : Constructed(i) =>
        LET r == Resolver(i) IN
        /\ r.auth = slots[i].auth
        /\ Len(r.key.cert) = 1
        /\ Some(EmbeddedPublicKey(r.auth, r.key.cert[1])) = public_key(r.key.key)

\* Both branches have produced a resolver.
C3_Witness ==
    \E i, j \in Slots :
        /\ Constructed(i) /\ slots[i].auth = "X509"
        /\ Constructed(j) /\ slots[j].auth = "RawPublicKey"

MaterializerFails(sk) ==
    \A rnd \in SigningRandomness : ~IsOk(certificate_generate(sk, rnd))

IsCertError(result) == result.tag = "Err" /\ result.err.variant = "CertError"

\* C7: new returns CertError exactly when the mode is X509 and the
\* materializer fails; the materializer's error is carried unchanged inside
\* it, no resolver is produced, the materializer is called once and not
\* again, and the RawPublicKey path calls it not at all.
C7_CertErrorIffMaterializerFails ==
    \A i \in Slots : Created(i) =>
        LET c == slots[i] IN
        /\ IsCertError(c.result) <=>
              (c.auth = "X509" /\ MaterializerFails(c.secret_key))
        /\ IsCertError(c.result) =>
              /\ c.state = "Failed"
              /\ c.result.val = <<>>
              /\ \E rnd \in SigningRandomness :
                    c.result.err =
                       CertError(certificate_generate(c.secret_key, rnd).err)
        /\ c.generate_calls = (IF c.auth = "X509" THEN 1 ELSE 0)

\* An X509 construction has failed with CertError, and a RawPublicKey
\* construction from a key the materializer rejects has succeeded.
C7_Witness ==
    \E i, j \in Slots :
        /\ slots[i].auth = "X509" /\ IsCertError(slots[i].result)
        /\ slots[j].auth = "RawPublicKey" /\ Constructed(j)
        /\ MaterializerFails(slots[j].secret_key)

\* The public-key material a resolver asserts: its mode, the public key of
\* every chain entry and the signer's public key.
PublicKeyMaterial(r) ==
    [auth |-> r.auth,
     chain |-> [n \in 1 .. Len(r.key.cert) |-> EmbeddedPublicKey(r.auth, r.key.cert[n])],
     signer |-> public_key(r.key.key)]

EncodeFails(sk) == ~IsOk(to_pkcs8_pem(sk))

DecodeFails(sk) ==
    /\ ~EncodeFails(sk)
    /\ ~IsOk(from_pem_slice(Unwrap(to_pkcs8_pem(sk))))

SignerFails(sk) ==
    /\ ~EncodeFails(sk) /\ ~DecodeFails(sk)
    /\ ~IsOk(any_eddsa_type(Unwrap(from_pem_slice(Unwrap(to_pkcs8_pem(sk))))))

NoPublicKey(sk) ==
    /\ ~EncodeFails(sk) /\ ~DecodeFails(sk) /\ ~SignerFails(sk)
    /\ public_key(Unwrap(any_eddsa_type(
                     Unwrap(from_pem_slice(Unwrap(to_pkcs8_pem(sk))))))) = None

\* C5: on the RawPublicKey path, when the signer yields no public key, new
\* returns the InconsistentKeys error as the Err value of its Result: no
\* resolver, and no panic.
C5_NoPublicKeyReturnsInconsistentKeys ==
    \A i \in Slots :
        (Created(i) /\ slots[i].auth = "RawPublicKey"
                    /\ NoPublicKey(slots[i].secret_key)) =>
            /\ slots[i].result.tag = "Err"
            /\ slots[i].result.err = Rustls(Error("InconsistentKeys", "Unknown"))

\* C6: on the RawPublicKey path, a key that cannot be encoded to PKCS#8 PEM,
\* decoded back, or loaded as a signer makes new return the Rustls error
\* variant; new never panics on it and never returns a resolver.
C6_KeyFailureReturnsRustlsError ==
    \A i \in Slots :
        (Created(i) /\ slots[i].auth = "RawPublicKey"
                    /\ \/ EncodeFails(slots[i].secret_key)
                       \/ DecodeFails(slots[i].secret_key)
                       \/ SignerFails(slots[i].secret_key)) =>
            /\ slots[i].result.tag = "Err"
            /\ slots[i].result.err.variant = "Rustls"

\* ------------------------------------------------------------ lifecycle
\* A slot is Constructed exactly when it holds a resolver.
FailsClosed ==
    \A i \in Slots :
        /\ slots[i].state \in {"Uninitialized", "Constructed", "Failed", "Panicked"}
        /\ Constructed(i) <=> Len(slots[i].result.val) = 1
        /\ ~Constructed(i) => slots[i].result.val = <<>>

\* Queries are answered by constructed resolvers only, from their stored key.
AnsweredFromStoredKey ==
    last.slot # 0 =>
        /\ Constructed(last.slot)
        /\ IsResolve => last.key = Some(Resolver(last.slot).key)

\* A call of new, once made, is never made again or undone: its resolver (the
\* CertifiedKey and the mode) or its failure stays as it is.
NeverReplaced ==
    \A i \in Slots : Created(i) => slots'[i] = slots[i]

\* Two resolve queries in a row on one resolver return the same CertifiedKey.
SameAsQueryBefore ==
    (IsResolve /\ last'.op = "resolve" /\ last'.slot = last.slot) =>
        last'.key = last.key

====
